---- MODULE Spec2Model ----
(***************************************************************************)
(* Model of 472_lab1.py: the AIMA search framework (Problem, Node, the     *)
(* uninformed and informed searches) instantiated on the 3x3 sliding-tile  *)
(* puzzle (EightPuzzle, EightPuzzle2, EightPuzzle3) and the driver main.   *)
(*                                                                         *)
(* A board is a 9-tuple; the Python index i of a cell is the TLA+ index    *)
(* i + 1.  All index arithmetic below is kept 0-based, as in the source.   *)
(***************************************************************************)
EXTENDS Integers, Sequences, FiniteSets, TLC

VARIABLES
    problem,    \* the Problem instance the search runs on
    alg,        \* the algorithm selector: "BFS", "IDS", "DLS", "H1", "H2", "H3"
    via,        \* "main" (the driver main) or "direct" (the function is called directly)
    initial,    \* problem.initial
    pc,         \* position of the running function
    calls,      \* the search functions invoked so far, in order
    node,       \* the local `node` of the graph searches
    children,   \* the children of `node` the for loop has still to process
    frontier,   \* breadth_first_graph_search: the deque
    pqueue,     \* best_first_graph_search: the PriorityQueue, a set of <<f, node>>
    explored,   \* the explored set (of states)
    stack,      \* the active recursive_dls calls, innermost last
    limit,      \* depth_limited_search's limit / iterative deepening's depth
    cnt,        \* the global cnt
    result,     \* what the search returned (recursive_dls: the local `result`)
    expansions, \* the number of calls of Node.expand so far
    board       \* the state of the board walk (SpecWalk)

vars == <<problem, alg, via, initial, pc, calls, node, children, frontier, pqueue,
          explored, stack, limit, cnt, result, expansions, board>>

----------------------------------------------------------------------------
(* Bounds of the model *)

\* initial boards are the boards at most MaxScramble moves away from a base board
MaxScramble == 4
\* depth_limited_search is called directly with limit in 0..MaxLimit, and
\* iterative deepening is followed up to depth MaxLimit
MaxLimit == 5
\* a graph search is followed for at most MaxExpand expansions on a board
\* from which the goal cannot be reached
MaxExpand == 12
\* depth_limited_search on a problem other than the puzzle is called with limit
\* in 0..MaxTreeLimit
MaxTreeLimit == 3
\* a state of such a problem has at most MaxActions actions
MaxActions == 2

----------------------------------------------------------------------------
(* The puzzle: EightPuzzle, EightPuzzle2 and EightPuzzle3 share these *)

goal == <<1, 2, 3, 4, 5, 6, 7, 8, 0>>

\* state.index(0)
find_blank_square(state) == CHOOSE i \in 0..8 : state[i + 1] = 0

\* possible_actions.remove(a) when cond
RemoveIf(cond, a, seq) == IF cond THEN SelectSeq(seq, LAMBDA x : x # a) ELSE seq

\* actions without the test of the left column
actions_wrap(state) ==
    LET index_blank_square == find_blank_square(state)
        a0 == <<"D", "U", "R", "L">>
        a2 == RemoveIf(index_blank_square < 3, "D", a0)
        a3 == RemoveIf(index_blank_square % 3 = 2, "L", a2)
        a4 == RemoveIf(index_blank_square > 5, "U", a3)
    IN  a4

actions(state) ==
    LET index_blank_square == find_blank_square(state)
        a0 == <<"D", "U", "R", "L">>
        a1 == RemoveIf(index_blank_square % 3 = 0, "R", a0)
        a2 == RemoveIf(index_blank_square < 3, "D", a1)
        a3 == RemoveIf(index_blank_square % 3 = 2, "L", a2)
        a4 == RemoveIf(index_blank_square > 5, "U", a3)
    IN  a4

\* delta[action] of result
delta(action) ==
    CASE action = "D" -> -3
      [] action = "U" -> 3
      [] action = "R" -> -1
      [] action = "L" -> 1

\* the exchange written as two assignments in a row: the blank is overwritten
result_of_seq(state, action) ==
    LET blank == find_blank_square(state)
        neighbor == blank + delta(action)
    IN  [i \in 1..9 |-> IF i = blank + 1 THEN state[neighbor + 1] ELSE state[i]]

\* new_state[blank], new_state[neighbor] = new_state[neighbor], new_state[blank]
result_of(state, action) ==
    LET blank == find_blank_square(state)
        neighbor == blank + delta(action)
    IN  [i \in 1..9 |->
            IF i = blank + 1 THEN state[neighbor + 1]
            ELSE IF i = neighbor + 1 THEN state[blank + 1]
            ELSE state[i]]

goal_test(state) == state = goal

\* the inversion count with the blank counted as a tile
inversion_blank(state) ==
    Cardinality({p \in (0..8) \X (0..8) :
        /\ p[1] < p[2]
        /\ state[p[1] + 1] > state[p[2] + 1]})

\* the inversion count of check_solvability
inversion(state) ==
    Cardinality({p \in (0..8) \X (0..8) :
        /\ p[1] < p[2]
        /\ state[p[1] + 1] > state[p[2] + 1]
        /\ state[p[1] + 1] # 0
        /\ state[p[2] + 1] # 0})

check_solvability(state) == inversion(state) % 2 = 0

----------------------------------------------------------------------------
(* The heuristics *)

RECURSIVE SumSeq(_)
SumSeq(seq) == IF seq = <<>> THEN 0 ELSE Head(seq) + SumSeq(Tail(seq))

\* EightPuzzle.h: sum(s != g for (s, g) in zip(node.state, self.goal))
H1(state) == SumSeq([i \in 1..9 |-> IF state[i] # goal[i] THEN 1 ELSE 0])

\* find_blank of EightPuzzle2.h: the 1-based slot of the blank
find_blank(state) ==
    IF \E k \in 1..9 : state[k] = 0
    THEN CHOOSE k \in 1..9 : state[k] = 0 /\ \A j \in 1..(k - 1) : state[j] # 0
    ELSE 9

\* the table with every distance entered four times too large
H2Scaled(state) ==
    LET num == find_blank(state)
    IN  IF num \in {8, 6} THEN 4
        ELSE IF num \in {3, 5, 7} THEN 8
        ELSE IF num \in {2, 4} THEN 12
        ELSE IF num = 1 THEN 16
        ELSE 0

\* EightPuzzle2.h
H2(state) ==
    LET num == find_blank(state)
    IN  IF num \in {8, 6} THEN 1
        ELSE IF num \in {3, 5, 7} THEN 2
        ELSE IF num \in {2, 4} THEN 3
        ELSE IF num = 1 THEN 4
        ELSE 0

\* The hardcoded constants of EightPuzzle3.h: H3Table[i + 1][t + 1] is what the
\* branch `if i == <i>: if state[i] == <t>:` adds to total_manhattan.
H3Table ==
    << <<4, 1, 0, 2, 1, 2, 3, 2, 3>>,
       <<3, 0, 1, 1, 2, 1, 2, 3, 2>>,
       <<2, 2, 1, 0, 3, 2, 1, 4, 3>>,
       <<3, 1, 2, 3, 0, 1, 2, 1, 2>>,
       <<2, 2, 1, 2, 1, 0, 1, 2, 1>>,
       <<1, 3, 2, 1, 2, 1, 0, 3, 2>>,
       <<2, 2, 3, 4, 1, 2, 3, 0, 1>>,
       <<1, 3, 2, 3, 2, 1, 2, 1, 0>>,
       <<0, 4, 3, 2, 3, 2, 1, 2, 1>> >>

\* EightPuzzle3.h: `for i in state` runs over the tile labels of the board, and
\* each label i selects the branch `i == <i>`, which reads the cell state[i]
H3(state) == SumSeq([k \in 1..9 |-> H3Table[state[k] + 1][state[state[k] + 1] + 1]])

\* problem.h of the Problem the selector builds
h(a, state) ==
    CASE a = "H1" -> H1(state)
      [] a = "H2" -> H2(state)
      [] a = "H3" -> H3(state)

----------------------------------------------------------------------------
(* Node *)

NoNode == [none |-> TRUE]

IsNode(n) == "state" \in DOMAIN n

\* Node.__init__ without the two lines on the parent's depth
NodeDepthZero(state, parent, action, path_cost) ==
    [state |-> state, parent |-> parent, action |-> action, path_cost |-> path_cost,
     depth |-> 0]

\* Node.__init__
Node(state, parent, action, path_cost) ==
    [state |-> state, parent |-> parent, action |-> action, path_cost |-> path_cost,
     depth |-> IF IsNode(parent) THEN parent.depth + 1 ELSE 0]

Root(state) == Node(state, NoNode, "None", 0)

\* Problem.path_cost
path_cost(c, state1, action, state2) == c + 1

\* Node.child_node
child_node(n, action) ==
    LET next_state == result_of(n.state, action)
    IN  Node(next_state, n, action, path_cost(n.path_cost, n.state, action, next_state))

\* the children for all actions but the last one
expand_short(n) == [k \in 1..(Len(actions(n.state)) - 1) |-> child_node(n, actions(n.state)[k])]

\* Node.expand
expand(n) == [k \in 1..Len(actions(n.state)) |-> child_node(n, actions(n.state)[k])]

\* Node.path
RECURSIVE path(_)
path(n) == IF IsNode(n) THEN Append(path(n.parent), n) ELSE <<>>

\* the actions of the path from the node back to the root
solution_back(n) == [k \in 1..(Len(path(n)) - 1) |-> path(n)[Len(path(n)) + 1 - k].action]

\* Node.solution
solution(n) == [k \in 1..(Len(path(n)) - 1) |-> path(n)[k + 1].action]

\* Node.__lt__
NodeLt(n, m) ==
    \E k \in 1..9 : /\ n.state[k] < m.state[k]
                    /\ \A j \in 1..(k - 1) : n.state[j] = m.state[j]

----------------------------------------------------------------------------
(* Problem instances: the puzzle, and subclasses of Problem over three states *)
(* in which an action is named after the state it leads to                   *)

EightPuzzle == [name |-> "EightPuzzle"]

TreeStates == {"a", "b", "c"}

\* the lists of at most MaxActions different actions
ActionLists ==
    {q \in UNION {[1..k -> TreeStates] : k \in 0..MaxActions} :
        \A i, j \in 1..Len(q) : q[i] = q[j] => i = j}

\* the subclasses: actions(state) is any such list, result(state, action) is
\* the state the action names, and the goal is a state or None
TreeProblems ==
    [name : {"Tree"}, actions : [TreeStates -> ActionLists],
     goal : {"b", "c", "None"}]

\* problem.goal_test(state)
goal_test_of(P, state) ==
    IF P.name = "EightPuzzle" THEN goal_test(state) ELSE state = P.goal

\* node.expand(problem)
expand_of(P, n) ==
    IF P.name = "EightPuzzle"
    THEN expand(n)
    ELSE [k \in 1..Len(P.actions[n.state]) |->
            LET action == P.actions[n.state][k]
                next_state == action
            IN  Node(next_state, n, action,
                     path_cost(n.path_cost, n.state, action, next_state))]

----------------------------------------------------------------------------
(* What a search returns: a Node, the 'cutoff' sentinel or None *)

NoResult == [tag |-> "pending", node |-> NoNode]
None == [tag |-> "None", node |-> NoNode]
Cutoff == [tag |-> "cutoff", node |-> NoNode]
Returned(n) == [tag |-> "node", node |-> n]

----------------------------------------------------------------------------
(* The frontier of breadth_first_graph_search: a deque of nodes *)

\* a deque used as a stack: the newest node and the deque without it
popright(q) == <<q[Len(q)], SubSeq(q, 1, Len(q) - 1)>>

\* frontier.popleft(): the oldest node and the deque without it
popleft(q) == <<Head(q), Tail(q)>>

\* `child not in frontier`: Node.__eq__ compares the states
InDeque(n, q) == \E k \in 1..Len(q) : q[k].state = n.state

----------------------------------------------------------------------------
(* utils.PriorityQueue('min', f): a heap of (f(item), item) pairs *)

\* f of greedy best-first search: the heuristic alone
f_greedy(a, n) == h(a, n.state)

\* f of astar_search: lambda n: n.path_cost + h(n)
f(a, n) == n.path_cost + h(a, n.state)

\* the heap order on (f(item), item) pairs; equal f values fall through to Node.__lt__
PairLt(p, q) == p[1] < q[1] \/ (p[1] = q[1] /\ NodeLt(p[2], q[2]))

\* PriorityQueue.append
PQAppend(q, a, n) == q \cup {<<f(a, n), n>>}

\* the pair PriorityQueue.pop removes
PQMin(q) == CHOOSE p \in q : \A r \in q : r = p \/ PairLt(p, r)

\* PriorityQueue.__contains__
PQContains(q, n) == \E p \in q : p[2].state = n.state

\* PriorityQueue.__getitem__: the f value stored with the entry equal to n
PQGet(q, n) == (CHOOSE p \in q : p[2].state = n.state)[1]

\* PriorityQueue.__delitem__
PQDel(q, n) == q \ {CHOOSE p \in q : p[2].state = n.state}

----------------------------------------------------------------------------
(* The boards the searches are started on *)

Succs(S) == UNION {{result_of(s, actions(s)[k]) : k \in 1..Len(actions(s))} : s \in S}

\* the boards at most k moves away from a board of S
RECURSIVE Within(_, _)
Within(S, k) == IF k = 0 THEN S ELSE LET W == Within(S, k - 1) IN W \cup Succs(W)

\* the goal with the tiles 7 and 8 exchanged: one inversion
OddBase == <<1, 2, 3, 4, 5, 6, 8, 7, 0>>

\* a board 14 moves away from the goal
HardBoard == <<7, 4, 3, 1, 2, 6, 5, 8, 0>>

EvenBoards == Within({goal}, MaxScramble)
OddBoards == Within({OddBase}, MaxScramble)

GraphAlgs == {"BFS", "H1", "H2", "H3"}
MainAlgs == {"BFS", "IDS", "H1", "H2", "H3"}

\* length of a shortest move sequence from s to the goal (-1: there is none)
RECURSIVE LevelSearch(_, _, _)
LevelSearch(level, seen, k) ==
    IF goal \in level THEN k
    ELSE IF level = {} THEN -1
    ELSE LET next == Succs(level) \ seen
         IN  LevelSearch(next, seen \cup next, k + 1)

ShortestLen(s) == LevelSearch({s}, {s}, 0)

----------------------------------------------------------------------------
(* Initial states *)

Idle ==
    /\ calls = <<>>
    /\ node = NoNode
    /\ children = <<>>
    /\ frontier = <<>>
    /\ pqueue = {}
    /\ explored = {}
    /\ stack = <<>>
    /\ cnt = 0
    /\ expansions = 0
    /\ result = NoResult

Init ==
    /\ pc = "start"
    /\ \/ /\ via \in {"main", "direct"}
          /\ alg \in MainAlgs
          /\ initial \in EvenBoards \cup OddBoards
          /\ limit = 0
       \/ /\ via = "direct"
          /\ alg = "DLS"
          /\ initial \in EvenBoards \cup OddBoards
          /\ limit \in 0..MaxLimit
       \/ /\ via = "direct"
          /\ alg \in {"H1", "H3"}
          /\ initial = HardBoard
          /\ limit = 0
    /\ problem = EightPuzzle
    /\ board = initial
    /\ Idle

----------------------------------------------------------------------------
(* Entering a search function *)

\* breadth_first_graph_search without the goal test of the root
EnterBFSNoTest ==
    /\ node' = Root(initial)
    /\ frontier' = <<Root(initial)>>
    /\ explored' = {}
    /\ pc' = "bfs_loop"
    /\ UNCHANGED <<result, children, pqueue, stack, limit, cnt, expansions>>

\* breadth_first_graph_search up to its loop
EnterBFS ==
    LET n == Root(initial)
    IN  /\ node' = n
        /\ IF goal_test(n.state)
           THEN /\ result' = Returned(n)
                /\ pc' = "done"
                /\ UNCHANGED <<frontier, explored>>
           ELSE /\ frontier' = <<n>>
                /\ explored' = {}
                /\ pc' = "bfs_loop"
                /\ UNCHANGED result
        /\ UNCHANGED <<children, pqueue, stack, limit, cnt, expansions>>

\* astar_search and best_first_graph_search up to the loop
EnterBestFirst ==
    LET n == Root(initial)
    IN  /\ node' = n
        /\ pqueue' = PQAppend({}, alg, n)
        /\ explored' = {}
        /\ pc' = "bf_loop"
        /\ UNCHANGED <<children, frontier, stack, limit, cnt, expansions, result>>

\* an active call recursive_dls(n, problem, l) that has not run yet
Frame(n, l) == [node |-> n, limit |-> l, children |-> <<>>, cutoff_occurred |-> FALSE]

\* depth_limited_search(problem, l): the call recursive_dls(Node(problem.initial), problem, l)
EnterDLS(l) ==
    /\ stack' = <<Frame(Root(initial), l)>>
    /\ limit' = l
    /\ pc' = "dls_call"
    /\ UNCHANGED <<node, children, frontier, pqueue, explored, cnt, expansions, result>>

Enter ==
    CASE alg = "BFS" -> EnterBFS
      [] alg \in {"H1", "H2", "H3"} -> EnterBestFirst
      [] alg = "DLS" -> EnterDLS(limit)
      [] alg = "IDS" -> EnterDLS(0)

\* the search function an algorithm selector stands for
SearchOf(a) ==
    CASE a = "BFS" -> "breadth_first_graph_search"
      [] a \in {"H1", "H2", "H3"} -> "astar_search"
      [] a = "DLS" -> "depth_limited_search"
      [] a = "IDS" -> "iterative_deepening_search"

\* the state main hands to check_solvability: puzzle.goal
PreCheckArg == goal

\* main from `CHOOSE ALGORITHM` to the call of the search
Main ==
    /\ pc = "start"
    /\ via = "main"
    /\ IF ~check_solvability(PreCheckArg)
       THEN /\ pc' = "exit"
            /\ UNCHANGED <<calls, node, children, frontier, pqueue, explored, stack,
                           limit, cnt, expansions, result>>
       ELSE /\ calls' = Append(calls, SearchOf(alg))
            /\ Enter
    /\ UNCHANGED <<problem, alg, via, initial, board>>

\* a search function called on its own
Call ==
    /\ pc = "start"
    /\ via = "direct"
    /\ calls' = Append(calls, SearchOf(alg))
    /\ Enter
    /\ UNCHANGED <<problem, alg, via, initial, board>>

\* main after the search: len(end_state.solution()) raises on None
MainEnd ==
    /\ pc = "done"
    /\ via = "main"
    /\ pc' = IF result.tag = "node" THEN "fin" ELSE "raised"
    /\ UNCHANGED <<problem, alg, via, initial, board, calls, node, children, frontier, pqueue,
                   explored, stack, limit, cnt, expansions, result>>

\* the search is not followed further: the goal cannot be reached and
\* MaxExpand nodes have been expanded
Stopped == ~check_solvability(initial) /\ Cardinality(explored) >= MaxExpand

----------------------------------------------------------------------------
(* breadth_first_graph_search *)

\* `while frontier:` and the first three lines of the body
BFSLoop ==
    /\ pc = "bfs_loop"
    /\ ~Stopped
    /\ IF frontier = <<>>
       THEN /\ result' = None
            /\ pc' = "done"
            /\ UNCHANGED <<node, frontier, explored, children, expansions>>
       ELSE /\ node' = popleft(frontier)[1]
            /\ frontier' = popleft(frontier)[2]
            /\ explored' = explored \cup {node'.state}
            /\ children' = expand(node')
            /\ expansions' = expansions + 1
            /\ pc' = IF children' = <<>> THEN "bfs_loop" ELSE "bfs_child"
            /\ UNCHANGED result
    /\ UNCHANGED <<problem, alg, via, initial, board, calls, pqueue, stack, limit, cnt>>

\* one pass of `for child in node.expand(problem):`
BFSChild ==
    /\ pc = "bfs_child"
    /\ LET child == Head(children)
       IN  IF child.state \notin explored /\ ~InDeque(child, frontier)
           THEN IF goal_test(child.state)
                THEN /\ result' = Returned(child)
                     /\ pc' = "done"
                     /\ UNCHANGED <<frontier, children>>
                ELSE /\ frontier' = Append(frontier, child)
                     /\ children' = Tail(children)
                     /\ pc' = IF children' = <<>> THEN "bfs_loop" ELSE "bfs_child"
                     /\ UNCHANGED result
           ELSE /\ children' = Tail(children)
                /\ pc' = IF children' = <<>> THEN "bfs_loop" ELSE "bfs_child"
                /\ UNCHANGED <<frontier, result>>
    /\ UNCHANGED <<problem, alg, via, initial, board, calls, node, pqueue, explored, stack,
                   limit, cnt, expansions>>

----------------------------------------------------------------------------
(* best_first_graph_search *)

\* `while frontier:`, the pop, the goal test and the expansion
BFLoop ==
    /\ pc = "bf_loop"
    /\ ~Stopped
    /\ IF pqueue = {}
       THEN /\ result' = None
            /\ pc' = "done"
            /\ UNCHANGED <<node, pqueue, explored, children, expansions>>
       ELSE LET n == PQMin(pqueue)[2]
            IN  /\ node' = n
                /\ pqueue' = pqueue \ {PQMin(pqueue)}
                /\ IF goal_test(n.state)
                   THEN /\ result' = Returned(n)
                        /\ pc' = "done"
                        /\ UNCHANGED <<explored, children, expansions>>
                   ELSE /\ explored' = explored \cup {n.state}
                        /\ children' = expand(n)
                        /\ expansions' = expansions + 1
                        /\ pc' = IF children' = <<>> THEN "bf_loop" ELSE "bf_child"
                        /\ UNCHANGED result
    /\ UNCHANGED <<problem, alg, via, initial, board, calls, frontier, stack, limit, cnt>>

\* the body with the membership test of the frontier left out
BFInsertNoFrontierTest(q, a, seen, child) ==
    IF child.state \notin seen THEN PQAppend(q, a, child) ELSE q

\* the body with the stored entry kept when a cheaper child arrives
BFInsertKeepOld(q, a, seen, child) ==
    IF child.state \notin seen /\ ~PQContains(q, child)
    THEN PQAppend(q, a, child)
    ELSE IF PQContains(q, child) /\ f(a, child) < PQGet(q, child)
         THEN PQAppend(q, a, child)
         ELSE q

\* the body with the test of the explored set left out
BFInsertNoExploredTest(q, a, seen, child) ==
    IF ~PQContains(q, child)
    THEN PQAppend(q, a, child)
    ELSE IF f(a, child) < PQGet(q, child)
         THEN PQAppend(PQDel(q, child), a, child)
         ELSE q

\* the frontier after the body of `for child in node.expand(problem):` ran for child
BFInsert(q, a, seen, child) ==
    IF child.state \notin seen /\ ~PQContains(q, child)
    THEN PQAppend(q, a, child)
    ELSE IF PQContains(q, child)
         THEN IF f(a, child) < PQGet(q, child)
              THEN PQAppend(PQDel(q, child), a, child)
              ELSE q
         ELSE q

BFChild ==
    /\ pc = "bf_child"
    /\ pqueue' = BFInsert(pqueue, alg, explored, Head(children))
    /\ children' = Tail(children)
    /\ pc' = IF children' = <<>> THEN "bf_loop" ELSE "bf_child"
    /\ UNCHANGED <<problem, alg, via, initial, board, calls, node, frontier, explored, stack,
                   limit, cnt, expansions, result>>

----------------------------------------------------------------------------
(* depth_limited_search and iterative_deepening_search *)

Top == stack[Len(stack)]
Pop == SubSeq(stack, 1, Len(stack) - 1)
SetTop(fr) == [stack EXCEPT ![Len(stack)] = fr]

\* recursive_dls at limit == 0 with the sentinel left out
LimitNone == None

\* what recursive_dls returns when limit == 0
LimitResult == Cutoff

\* the return after the loop with the cutoff flag ignored
AfterLoopNone(fr) == None

\* the return after the loop: 'cutoff' if cutoff_occurred else None
AfterLoop(fr) == IF fr.cutoff_occurred THEN Cutoff ELSE None

\* recursive_dls from its entry to the start of the for loop
DLSCall ==
    /\ pc = "dls_call"
    /\ IF goal_test_of(problem, Top.node.state)
       THEN /\ result' = Returned(Top.node)
            /\ stack' = Pop
            /\ pc' = "dls_return"
            /\ UNCHANGED expansions
       ELSE IF Top.limit = 0
       THEN /\ result' = LimitResult
            /\ stack' = Pop
            /\ pc' = "dls_return"
            /\ UNCHANGED expansions
       ELSE /\ stack' = SetTop([Top EXCEPT !.children = expand_of(problem, Top.node),
                                           !.cutoff_occurred = FALSE])
            /\ expansions' = expansions + 1
            /\ pc' = "dls_loop"
            /\ UNCHANGED result
    /\ UNCHANGED <<problem, alg, via, initial, board, calls, node, children, frontier, pqueue,
                   explored, limit, cnt>>

\* the recursive call made with limit instead of limit - 1
DLSLoopSameLimit ==
    /\ pc = "dls_loop"
    /\ IF Top.children = <<>>
       THEN /\ result' = AfterLoop(Top)
            /\ stack' = Pop
            /\ pc' = "dls_return"
            /\ UNCHANGED cnt
       ELSE /\ cnt' = cnt + 1
            /\ stack' = Append(SetTop([Top EXCEPT !.children = Tail(Top.children)]),
                               Frame(Head(Top.children), Top.limit))
            /\ pc' = "dls_call"
            /\ UNCHANGED result
    /\ UNCHANGED <<problem, alg, via, initial, board, calls, node, children, frontier,
                   pqueue, explored, limit, expansions>>

\* the head of `for child in node.expand(problem):` with the recursive call,
\* and the return after the loop
DLSLoop ==
    /\ pc = "dls_loop"
    /\ IF Top.children = <<>>
       THEN /\ result' = AfterLoop(Top)
            /\ stack' = Pop
            /\ pc' = "dls_return"
            /\ UNCHANGED cnt
       ELSE /\ cnt' = cnt + 1
            /\ stack' = Append(SetTop([Top EXCEPT !.children = Tail(Top.children)]),
                               Frame(Head(Top.children), Top.limit - 1))
            /\ pc' = "dls_call"
            /\ UNCHANGED result
    /\ UNCHANGED <<problem, alg, via, initial, board, calls, node, children, frontier, pqueue,
                   explored, limit, expansions>>

\* the for loop going on to the next child after a child call returned a node
DLSReturnGoOn ==
    /\ pc = "dls_return"
    /\ IF stack = <<>>
       THEN /\ pc' = IF alg = "IDS" THEN "ids_loop" ELSE "done"
            /\ UNCHANGED stack
       ELSE IF result = Cutoff
       THEN /\ stack' = SetTop([Top EXCEPT !.cutoff_occurred = TRUE])
            /\ pc' = "dls_loop"
       ELSE /\ pc' = "dls_loop"
            /\ UNCHANGED stack
    /\ UNCHANGED <<problem, alg, via, initial, board, calls, node, children, frontier,
                   pqueue, explored, limit, cnt, expansions, result>>

\* a call of recursive_dls has returned `result` to its caller
DLSReturn ==
    /\ pc = "dls_return"
    /\ IF stack = <<>>
       THEN /\ pc' = IF alg = "IDS" THEN "ids_loop" ELSE "done"
            /\ UNCHANGED stack
       ELSE IF result = Cutoff
       THEN /\ stack' = SetTop([Top EXCEPT !.cutoff_occurred = TRUE])
            /\ pc' = "dls_loop"
       ELSE IF result # None
       THEN /\ stack' = Pop
            /\ pc' = "dls_return"
       ELSE /\ pc' = "dls_loop"
            /\ UNCHANGED stack
    /\ UNCHANGED <<problem, alg, via, initial, board, calls, node, children, frontier, pqueue,
                   explored, limit, cnt, expansions, result>>

\* iterative_deepening_search going on in steps of two
IDSLoopSkip ==
    /\ pc = "ids_loop"
    /\ IF result # Cutoff
       THEN /\ pc' = "done"
            /\ UNCHANGED <<stack, limit>>
       ELSE /\ limit + 1 < MaxLimit
            /\ stack' = <<Frame(Root(initial), limit + 2)>>
            /\ limit' = limit + 2
            /\ pc' = "dls_call"
    /\ UNCHANGED <<problem, alg, via, initial, board, calls, node, children, frontier, pqueue,
                   explored, cnt, expansions, result>>

\* iterative_deepening_search returning the result of its first call
IDSLoopOnce ==
    /\ pc = "ids_loop"
    /\ pc' = "done"
    /\ UNCHANGED <<problem, alg, via, initial, board, calls, node, children, frontier,
                   pqueue, explored, stack, limit, cnt, expansions, result>>

\* iterative_deepening_search: `if result != 'cutoff': return result`, else the
\* next depth (followed up to depth MaxLimit)
IDSLoop ==
    /\ pc = "ids_loop"
    /\ IF result # Cutoff
       THEN /\ pc' = "done"
            /\ UNCHANGED <<stack, limit>>
       ELSE /\ limit < MaxLimit
            /\ stack' = <<Frame(Root(initial), limit + 1)>>
            /\ limit' = limit + 1
            /\ pc' = "dls_call"
    /\ UNCHANGED <<problem, alg, via, initial, board, calls, node, children, frontier, pqueue,
                   explored, cnt, expansions, result>>

----------------------------------------------------------------------------
(* The searches *)

Next ==
    \/ Main
    \/ Call
    \/ MainEnd
    \/ BFSLoop
    \/ BFSChild
    \/ BFLoop
    \/ BFChild
    \/ DLSCall
    \/ DLSLoop
    \/ DLSReturn
    \/ IDSLoop

Spec == Init /\ [][Next]_vars

\* the runs of the searches that are complete, on boards the goal is reachable
\* from
InitLive ==
    /\ Init
    /\ alg \in {"BFS", "IDS", "H1", "H2", "H3"}
    /\ check_solvability(initial)

\* the interpreter runs the program on: a step that can be taken is taken
SpecLive == InitLive /\ [][Next]_vars /\ WF_vars(Next)

----------------------------------------------------------------------------
(* The board walk: every board that legal moves reach from the goal and from *)
(* OddBase                                                                   *)

InitWalk ==
    /\ pc = "walk"
    /\ alg = "none"
    /\ via = "direct"
    /\ initial \in {goal, OddBase}
    /\ problem = EightPuzzle
    /\ board = initial
    /\ limit = 0
    /\ Idle

\* one legal move: board becomes result(board, action) for an action of actions(board)
Move ==
    /\ \E k \in 1..Len(actions(board)) : board' = result_of(board, actions(board)[k])
    /\ UNCHANGED <<problem, alg, via, initial, pc, calls, node, children, frontier, pqueue,
                   explored, stack, limit, cnt, result, expansions>>

SpecWalk == InitWalk /\ [][Move]_vars

----------------------------------------------------------------------------
(* depth_limited_search called on the problems of TreeProblems *)

InitTree ==
    /\ pc = "start"
    /\ via = "direct"
    /\ alg = "DLS"
    /\ problem \in TreeProblems
    /\ initial = "a"
    /\ limit \in 0..MaxTreeLimit
    /\ board = initial
    /\ Idle

NextTree ==
    \/ Call
    \/ DLSCall
    \/ DLSLoop
    \/ DLSReturn

SpecTree == InitTree /\ [][NextTree]_vars

----------------------------------------------------------------------------
(* Properties *)

\* the search has returned
Finished == pc \in {"done", "fin", "raised"}

\* the returned node is a goal node whose solution has k actions
ReturnsGoalOfLength(k) ==
    /\ result.tag = "node"
    /\ goal_test(result.node.state)
    /\ Len(solution(result.node)) = k

\* C1: in main, a board with an odd inversion count makes the pre-check fail and
\* main exit early: no search function is ever invoked on that board.
C1_OddBoardNotSearched ==
    (via = "main" /\ inversion(initial) % 2 = 1) => (calls = <<>> /\ pc \in {"start", "exit"})

\* C2: on a solvable board breadth_first_graph_search returns a goal node whose
\* solution() is as long as a shortest move sequence from the board to the goal.
C2_BFSShortest ==
    (alg = "BFS" /\ Finished /\ check_solvability(initial))
        => ReturnsGoalOfLength(ShortestLen(initial))

C2_Witness ==
    /\ alg = "BFS"
    /\ Finished
    /\ result.tag = "node"
    /\ Len(solution(result.node)) = MaxScramble
    /\ ShortestLen(initial) = MaxScramble

\* C3: on a solvable board astar_search with the heuristic H1 returns a goal node
\* whose solution() is as long as a shortest move sequence.
C3_AStarH1Shortest ==
    (alg = "H1" /\ Finished /\ check_solvability(initial))
        => ReturnsGoalOfLength(ShortestLen(initial))

C3_Witness ==
    /\ alg = "H1"
    /\ Finished
    /\ initial = HardBoard
    /\ result.tag = "node"
    /\ Len(solution(result.node)) = ShortestLen(HardBoard)
    /\ expansions > MaxExpand

\* C4: on a solvable board astar_search with the heuristic H3 returns a goal node
\* whose solution() is as long as a shortest move sequence.
C4_AStarH3Shortest ==
    (alg = "H3" /\ Finished /\ check_solvability(initial))
        => ReturnsGoalOfLength(ShortestLen(initial))

\* the actions of acts, applied in order from s, are each in actions() of the
\* state they are applied to
RECURSIVE Legal(_, _)
Legal(s, acts) ==
    \/ acts = <<>>
    \/ /\ \E k \in 1..Len(actions(s)) : actions(s)[k] = Head(acts)
       /\ Legal(result_of(s, Head(acts)), Tail(acts))

\* the state after applying result() once per action of acts, in order, from s
RECURSIVE Replay(_, _)
Replay(s, acts) ==
    IF acts = <<>> THEN s ELSE Replay(result_of(s, Head(acts)), Tail(acts))

\* C5: whenever a search reports success, replaying solution() of the returned
\* node from the initial state uses only legal actions and ends in the goal, which
\* is the state of the returned node.
C5_SolutionReplays ==
    (Finished /\ result.tag = "node")
        => /\ Legal(initial, solution(result.node))
           /\ Replay(initial, solution(result.node)) = goal
           /\ result.node.state = goal

C5_Witness ==
    /\ Finished
    /\ alg = "IDS"
    /\ result.tag = "node"
    /\ Len(solution(result.node)) = MaxScramble
    /\ Replay(initial, solution(result.node)) = goal

\* C6: check_solvability(s) is true exactly of the boards that legal moves
\* connect with the goal: true on every board reached from the goal, false on
\* every board reached from OddBase, and the two walks together reach every
\* permutation of 0..8.
C6_SolvableIffConnected ==
    pc = "walk" => (check_solvability(board) <=> initial = goal)

C6_Witness ==
    /\ pc = "walk"
    /\ initial = OddBase
    /\ board = <<2, 1, 3, 4, 5, 6, 7, 8, 0>>
    /\ ~check_solvability(board)

row(i) == i \div 3
col(i) == i % 3

\* the blank of result(s, a) is d rows below and e columns right of the blank of s
BlankMoved(s, a, d, e) ==
    LET b == find_blank_square(s)
    IN  \E nb \in 0..8 :
            /\ result_of(s, a)[nb + 1] = 0
            /\ row(nb) = row(b) + d
            /\ col(nb) = col(b) + e

\* C7 as stated: result(s, a) moves the blank one grid step in the direction
\* the label names: 'U' one row up, 'D' one row down, 'L' one column left,
\* 'R' one column right.
C7_BlankFollowsLabel ==
    pc = "walk" =>
        \A k \in 1..Len(actions(board)) :
            LET a == actions(board)[k]
            IN  /\ a = "U" => BlankMoved(board, a, -1, 0)
                /\ a = "D" => BlankMoved(board, a, 1, 0)
                /\ a = "L" => BlankMoved(board, a, 0, -1)
                /\ a = "R" => BlankMoved(board, a, 0, 1)

\* C7 amended: result(s, a) moves the blank one grid step against the label (the
\* label names the way the neighbouring tile slides): 'U' one row down, 'D' one
\* row up, 'L' one column right, 'R' one column left.
C7_BlankAgainstLabel ==
    pc = "walk" =>
        \A k \in 1..Len(actions(board)) :
            LET a == actions(board)[k]
            IN  /\ a = "U" => BlankMoved(board, a, 1, 0)
                /\ a = "D" => BlankMoved(board, a, -1, 0)
                /\ a = "L" => BlankMoved(board, a, 0, 1)
                /\ a = "R" => BlankMoved(board, a, 0, -1)

C7_Witness ==
    /\ pc = "walk"
    /\ board # initial
    /\ find_blank_square(board) = 4
    /\ Len(actions(board)) = 4
    /\ BlankMoved(board, "U", 1, 0)

\* C8: started on the goal, every search returns the root node with an empty
\* solution() and expands no node.
C8_GoalAtOnce ==
    (initial = goal /\ pc # "walk")
        => /\ expansions = 0
           /\ explored = {}
           /\ cnt = 0
           /\ pc \in {"start", "exit", "bf_loop", "dls_call", "dls_return", "ids_loop",
                      "done", "fin"}
           /\ Finished => /\ result = Returned(Root(goal))
                          /\ solution(result.node) = <<>>

C8_Witness ==
    /\ initial = goal
    /\ alg = "DLS"
    /\ limit = MaxLimit
    /\ pc = "done"
    /\ result = Returned(Root(goal))

C10_CutoffBelowShortest ==
    (alg = "DLS" /\ Finished /\ check_solvability(initial) /\ limit < ShortestLen(initial))
        => result = Cutoff

C10_Witness ==
    /\ alg = "DLS"
    /\ Finished
    /\ check_solvability(initial)
    /\ limit = MaxScramble - 1
    /\ result = Cutoff
    /\ ShortestLen(initial) = MaxScramble

\* the states of the nodes in the frontier of the running graph search
FrontierStates ==
    IF alg = "BFS" THEN {frontier[k].state : k \in 1..Len(frontier)}
    ELSE {p[2].state : p \in pqueue}

\* the number of entries of that frontier
FrontierSize == IF alg = "BFS" THEN Len(frontier) ELSE Cardinality(pqueue)

InGraphSearch == pc \in {"bfs_loop", "bfs_child", "bf_loop", "bf_child"}

\* C11: in breadth_first_graph_search and best_first_graph_search, between loop
\* iterations and after each child, no two frontier entries have equal states and
\* no frontier entry's state is in the explored set.
C11_OneLiveNodePerState ==
    (alg \in GraphAlgs /\ (InGraphSearch \/ Finished))
        => /\ Cardinality(FrontierStates) = FrontierSize
           /\ FrontierStates \cap explored = {}

\* a state already in the frontier (or explored) is generated again by another
\* action sequence
C11_Witness ==
    /\ alg \in {"H1", "H3"}
    /\ pc = "bf_child"
    /\ FrontierSize > MaxExpand
    /\ Head(children).state \in FrontierStates
    /\ Head(children).state # node.parent.state

\* the entries of q for the state of n
EntriesOf(q, n) == {p \in q : p[2].state = n.state}

\* C12: in best_first_graph_search, when a child is generated whose state is
\* already in the frontier: with a strictly lower f the frontier afterwards holds
\* exactly one entry for that state, the new child with its f, and the other
\* entries are as before; otherwise the frontier is left unchanged.
C12_DecreaseKey ==
    [][(pc = "bf_child" /\ PQContains(pqueue, Head(children)))
        => LET child == Head(children)
           IN  IF f(alg, child) < PQGet(pqueue, child)
               THEN /\ EntriesOf(pqueue', child) = {<<f(alg, child), child>>}
                    /\ pqueue' \ EntriesOf(pqueue', child) = pqueue \ EntriesOf(pqueue, child)
               ELSE pqueue' = pqueue]_vars

\* a child is generated whose state is in the frontier with a higher f
C12_Witness ==
    /\ pc = "bf_child"
    /\ PQContains(pqueue, Head(children))
    /\ f(alg, Head(children)) < PQGet(pqueue, Head(children))

\* a child is generated whose state is in the frontier with an f not higher
C12_WitnessKept ==
    /\ pc = "bf_child"
    /\ PQContains(pqueue, Head(children))
    /\ f(alg, Head(children)) >= PQGet(pqueue, Head(children))

\* the frontier after the whole for loop over the children kids ran
RECURSIVE InsertAll(_, _, _, _)
InsertAll(q, a, seen, kids) ==
    IF kids = <<>> THEN q
    ELSE InsertAll(BFInsert(q, a, seen, Head(kids)), a, seen, Tail(kids))

\* best_first_graph_search run to its return from the frontier q and the
\* explored set seen
RECURSIVE BestFirstFrom(_, _, _)
BestFirstFrom(a, q, seen) ==
    IF q = {} THEN None
    ELSE LET p == PQMin(q)
             n == p[2]
         IN  IF goal_test(n.state) THEN Returned(n)
             ELSE BestFirstFrom(a, InsertAll(q \ {p}, a, seen \cup {n.state}, expand(n)),
                                seen \cup {n.state})

\* what astar_search returns on the board s with the heuristic of selector a
astar_search(a, s) == BestFirstFrom(a, PQAppend({}, a, Root(s)), {})

Manhattan(i, j) ==
    (IF row(i) > row(j) THEN row(i) - row(j) ELSE row(j) - row(i))
        + (IF col(i) > col(j) THEN col(i) - col(j) ELSE col(j) - col(i))

\* the index of tile t in the goal
GoalIndex(t) == CHOOSE i \in 0..8 : goal[i + 1] = t

\* C14: H1 is admissible: on every solvable board H1 is at most the length of a
\* shortest move sequence to the goal, and H1(goal) = 0.
C14_H1Admissible ==
    (pc = "walk" /\ check_solvability(board))
        => /\ H1(board) <= ShortestLen(board)
           /\ board = goal => H1(board) = 0

\* C15: H1 is consistent: H1(s) - H1(result(s, a)) <= 1 for every action a of
\* actions(s).
C15_H1Consistent ==
    pc = "walk" =>
        \A k \in 1..Len(actions(board)) :
            H1(board) - H1(result_of(board, actions(board)[k])) <= 1

\* the sum over the nine cells of the Manhattan distance between the cell and the
\* goal cell of what sits in it, the blank included
ManhattanSum(state) == SumSeq([k \in 1..9 |-> Manhattan(k - 1, GoalIndex(state[k]))])

\* C16: on every permutation EightPuzzle3.h is the sum over the nine cells of the
\* Manhattan distance of the cell to the goal cell of its content, and every
\* hardcoded (position, tile) entry is that Manhattan distance.
C16_H3IsManhattanSum ==
    pc = "walk"
        => /\ H3(board) = ManhattanSum(board)
           /\ \A i \in 0..8 : H3Table[i + 1][board[i + 1] + 1] = Manhattan(i, GoalIndex(board[i + 1]))

\* C17: H3 is admissible: on every solvable board H3 is at most the length of a
\* shortest move sequence to the goal, and H3(goal) = 0.
C17_H3Admissible ==
    (pc = "walk" /\ check_solvability(board))
        => /\ board = goal => H3(board) = 0
           /\ H3(board) <= ShortestLen(board)

\* C18: EightPuzzle2.h is the Manhattan distance from the cell of the blank to
\* the bottom-right cell (index 8): it depends on the index of the blank alone
\* and is 0 exactly when the blank is at index 8.
C18_H2IsBlankDistance ==
    pc = "walk"
        => /\ H2(board) = Manhattan(find_blank_square(board), 8)
           /\ H2(board) = 0 <=> find_blank_square(board) = 8

C18_Witness ==
    /\ pc = "walk"
    /\ initial = OddBase
    /\ find_blank_square(board) = 0
    /\ board[2] = 8
    /\ H2(board) = 4

\* the child of node the for loop of a graph search has processed last
LastChild == expand(node)[Len(expand(node)) - Len(children)]

\* a step of a graph search keeps explored, expands only a node whose state is
\* not in explored, and inserts no node whose state is in explored
ExpandedOnceStep ==
    alg \in GraphAlgs
        => /\ explored \subseteq explored'
           /\ (expansions' > expansions)
                => (node'.state \notin explored /\ explored' = explored \cup {node'.state})
           /\ (FrontierStates' \ FrontierStates) \cap explored' = {}
           /\ FrontierStates' \cap explored' = {}

\* C19: within a run of breadth_first_graph_search or best_first_graph_search a
\* state is expanded at most once: a state stays in explored, a node is expanded
\* only if its state is not yet in explored, and no node whose state is in
\* explored is inserted into the frontier.
C19_ExpandedOnce == [][ExpandedOnceStep]_vars

\* a child whose state is in explored was generated again on another way than
\* the step back to the parent's parent, and was discarded
C19_Witness ==
    /\ alg \in {"H1", "H3"}
    /\ pc \in {"bf_child", "bf_loop"}
    /\ IsNode(node)
    /\ IsNode(node.parent)
    /\ node.state \in explored
    /\ Len(children) < Len(expand(node))
    /\ LastChild.state \in explored
    /\ LastChild.state # node.parent.state
    /\ LastChild.state \notin FrontierStates

\* a step of iterative_deepening_search: the first call of depth_limited_search
\* has limit 0, the limit goes up by one and only after a 'cutoff', the first
\* other result is returned, and on a solvable board that is a shortest solution
\* found with the limit equal to its length
IDSStep ==
    alg = "IDS"
        => /\ pc = "start" => limit' = 0
           /\ limit' = limit \/ (limit' = limit + 1 /\ pc = "ids_loop" /\ result = Cutoff)
           /\ (pc' = "dls_call" /\ Len(stack') = 1)
                => (stack'[1].limit = limit' /\ stack'[1].node = Root(initial))
           /\ (pc = "ids_loop" /\ result = Cutoff) => pc' = "dls_call"
           /\ (pc = "ids_loop" /\ result # Cutoff)
                => (pc' = "done" /\ result' = result /\ limit' = limit)
           /\ (pc' = "done" /\ check_solvability(initial))
                => /\ limit' = ShortestLen(initial)
                   /\ (ReturnsGoalOfLength(ShortestLen(initial)))'

\* C20: iterative_deepening_search calls depth_limited_search with limit 0, 1,
\* 2, ... in increasing order, stops at the first result that is not 'cutoff' and
\* returns it; on a solvable board with shortest solution length L the calls are
\* those with the limits 0..L and the result is a goal node with a solution() of
\* length L.
C20_IterativeDeepening == [][IDSStep]_vars

C20_Witness ==
    /\ alg = "IDS"
    /\ pc = "done"
    /\ limit = MaxScramble
    /\ cnt > MaxScramble
    /\ result.tag = "node"
    /\ Len(solution(result.node)) = limit

\* the results of the child calls of recursive_dls(n, problem, l), in the
\* order of actions(), and what the call returns according to them
RECURSIVE ChildOutcomes(_, _, _), Outcome(_, _, _)
ChildOutcomes(P, n, l) ==
    [k \in 1..Len(expand_of(P, n)) |-> Outcome(P, expand_of(P, n)[k], l - 1)]

Outcome(P, n, l) ==
    LET rs == ChildOutcomes(P, n, l)
        nodes == {k \in 1..Len(rs) : rs[k].tag = "node"}
    IN  IF goal_test_of(P, n.state) THEN Returned(n)
        ELSE IF l = 0 THEN Cutoff
        ELSE IF nodes # {} THEN rs[CHOOSE k \in nodes : \A j \in nodes : k <= j]
        ELSE IF \E k \in 1..Len(rs) : rs[k] = Cutoff THEN Cutoff
        ELSE None

\* a step in which a call of recursive_dls returns: its frame leaves the stack
DLSReturning == alg \in {"DLS", "IDS"} /\ Len(stack') < Len(stack)

OutcomeStep ==
    DLSReturning
        => /\ result' \in {Returned(result'.node), Cutoff, None}
           /\ result'.tag = "node" => IsNode(result'.node)
           /\ result' = Outcome(problem, Top.node, Top.limit)
           /\ result' = None
                <=> /\ ~goal_test_of(problem, Top.node.state)
                    /\ Top.limit > 0
                    /\ \A k \in 1..Len(expand_of(problem, Top.node)) :
                          ChildOutcomes(problem, Top.node, Top.limit)[k] = None

\* C21: a call of recursive_dls returns exactly one of: a goal node, when its
\* node is a goal or a child call returns a node (that of the first such child
\* in the order of actions()); otherwise 'cutoff', when its limit is 0 or a
\* child call returned 'cutoff'; otherwise None, which is so only when every
\* child call returned None (no children included).
C21_ThreeOutcomes == [][OutcomeStep]_vars

\* a call with children returned None, and one without
C21_Witness ==
    /\ problem.name = "Tree"
    /\ pc = "done"
    /\ result = None
    /\ limit > 1
    /\ Len(problem.actions[initial]) = MaxActions
    /\ problem.actions[problem.actions[initial][1]] # <<>>
    /\ problem.actions[problem.actions[initial][2]] = <<>>

\* C22: during depth_limited_search(problem, limit) every node recursive_dls is
\* invoked on has depth <= limit, the limit argument passed down is never
\* negative, and at most limit + 1 calls of recursive_dls are active at a time.
C22_DepthWithinLimit ==
    alg \in {"DLS", "IDS"}
        => /\ Len(stack) <= limit + 1
           /\ \A k \in 1..Len(stack) :
                /\ stack[k].node.depth <= limit
                /\ stack[k].limit >= 0
                /\ stack[k].node.depth = k - 1
                /\ stack[k].limit = limit - stack[k].node.depth

\* limit + 1 calls are active, the innermost on a node of depth limit
C22_Witness ==
    /\ alg = "DLS"
    /\ limit = MaxLimit
    /\ pc = "dls_call"
    /\ Len(stack) = limit + 1
    /\ Top.node.depth = limit
    /\ Top.limit = 0
    /\ cnt > MaxLimit

\* one of the five complete searches runs on a board the goal is reachable from
CompleteSearchOnSolvable ==
    /\ alg \in {"BFS", "IDS", "H1", "H2", "H3"}
    /\ check_solvability(initial)

ReturnedGoalNode ==
    /\ Finished
    /\ result.tag = "node"
    /\ goal_test(result.node.state)

\* C23: on a solvable board breadth_first_graph_search, iterative_deepening_search
\* and astar_search with H1, H2 or H3 terminate and return a node whose state is
\* the goal; none of them ends with an empty frontier (None) or without a result.
C23_TerminatesWithGoal ==
    /\ (CompleteSearchOnSolvable ~> ReturnedGoalNode)
    /\ []((CompleteSearchOnSolvable /\ Finished) => ReturnedGoalNode)
    /\ []((CompleteSearchOnSolvable /\ alg # "IDS" /\ pc \in {"bfs_loop", "bf_loop"})
            => FrontierSize > 0)

\* the search on HardBoard has returned after more than MaxExpand expansions
C23_Witness ==
    /\ CompleteSearchOnSolvable
    /\ ReturnedGoalNode
    /\ initial = HardBoard
    /\ expansions > MaxExpand

\* the cells (indices 0..8) in which two boards differ
Differing(s, t) == {i \in 0..8 : s[i + 1] # t[i + 1]}

\* cells i and j are next to each other in a row or in a column of the grid
Adjacent(i, j) ==
    \/ row(i) = row(j) /\ (col(i) = col(j) + 1 \/ col(j) = col(i) + 1)
    \/ col(i) = col(j) /\ (row(i) = row(j) + 1 \/ row(j) = row(i) + 1)

IsPermutation(s) == DOMAIN s = 1..9 /\ {s[i] : i \in 1..9} = 0..8

\* the number of cells next to cell i: 2 in a corner, 3 on an edge, 4 in the centre
Neighbours(i) == Cardinality({j \in 0..8 : Adjacent(i, j)})

\* result(s, a) exchanges the blank of s with the tile of one adjacent cell
ExchangesWithNeighbour(s, a) ==
    LET blank == find_blank_square(s)
        neighbor == blank + delta(a)
    IN  /\ neighbor \in 0..8
        /\ Adjacent(blank, neighbor)
        /\ IsPermutation(result_of(s, a))
        /\ Differing(s, result_of(s, a)) = {blank, neighbor}
        /\ result_of(s, a)[neighbor + 1] = 0
        /\ result_of(s, a)[blank + 1] = s[neighbor + 1]

\* C24: for a permutation s of 0..8 and each action a of actions(s), result(s, a)
\* is a permutation of 0..8 that differs from s in exactly two cells, the
\* blank's and one orthogonally adjacent cell (no wrap over a row edge, no
\* index outside 0..8), the other seven cells being unchanged; actions(s) has
\* 2, 3 or 4 elements for a blank in a corner, on an edge or in the centre.
C24_ResultExchangesNeighbour ==
    pc = "walk"
        => /\ IsPermutation(board)
           /\ \A k \in 1..Len(actions(board)) : ExchangesWithNeighbour(board, actions(board)[k])
           /\ \A j, k \in 1..Len(actions(board)) : actions(board)[j] = actions(board)[k] => j = k
           /\ Len(actions(board)) = Neighbours(find_blank_square(board))
           /\ Len(actions(board)) =
                CASE find_blank_square(board) \in {0, 2, 6, 8} -> 2
                  [] find_blank_square(board) \in {1, 3, 5, 7} -> 3
                  [] find_blank_square(board) = 4 -> 4

\* the blank in the left column of the middle row, on a board far from the goal
C24_Witness ==
    /\ pc = "walk"
    /\ find_blank_square(board) = 3
    /\ Len(actions(board)) = 3
    /\ ~check_solvability(board)
    /\ board[1] = 8
    /\ \A k \in 1..3 : ExchangesWithNeighbour(board, actions(board)[k])

\* the elements of a sequence
Range(q) == {q[k] : k \in 1..Len(q)}

\* the nodes the running search holds
LiveNodes ==
    (IF IsNode(node) THEN {node} ELSE {})
        \cup Range(children)
        \cup Range(frontier)
        \cup {p[2] : p \in pqueue}
        \cup UNION {{stack[k].node} \cup Range(stack[k].children) : k \in 1..Len(stack)}
        \cup (IF result.tag = "node" THEN {result.node} ELSE {})

\* the fields of a node and of all its ancestors are as Node.__init__ and
\* child_node set them
RECURSIVE AsCreated(_)
AsCreated(n) ==
    IF IsNode(n.parent)
    THEN /\ n.depth = n.parent.depth + 1
         /\ n.path_cost = n.parent.path_cost + 1
         /\ n.action \in Range(actions(n.parent.state))
         /\ n.state = result_of(n.parent.state, n.action)
         /\ AsCreated(n.parent)
    ELSE /\ n.depth = 0
         /\ n.path_cost = 0
         /\ n.state = initial

NodeFieldsAgree(n) ==
    /\ AsCreated(n)
    /\ n.depth = n.path_cost
    /\ n.depth = Len(solution(n))
    /\ n.depth = Len(path(n)) - 1
    /\ path(n)[1] = Root(initial)
    /\ path(n)[Len(path(n))] = n

\* the children held by a loop have the node being expanded, as it is now, as
\* their parent; so has the node of a recursive call the node of its caller
ParentsUntouched ==
    /\ pc \in {"bfs_child", "bf_child"} => \A c \in Range(children) : c.parent = node
    /\ \A k \in 1..Len(stack) :
          /\ \A c \in Range(stack[k].children) : c.parent = stack[k].node
          /\ k > 1 => stack[k].node.parent = stack[k - 1].node

\* C25: for every node a search creates (costs being 1 a step) the root has
\* depth 0 and path_cost 0, a child has its parent's depth and path_cost plus 1,
\* so depth = path_cost = len(solution()) = len(path()) - 1, path()[0] is the
\* root with the initial state, and a parent's fields stay as they were when
\* its children were created.
C25_NodeFields ==
    problem = EightPuzzle
        => /\ \A n \in LiveNodes : NodeFieldsAgree(n)
           /\ ParentsUntouched

\* a returned node of depth MaxScramble while nodes are still in the frontier
C25_Witness ==
    /\ alg = "BFS"
    /\ Finished
    /\ result.tag = "node"
    /\ result.node.depth = MaxScramble
    /\ Len(path(result.node)) = MaxScramble + 1
    /\ Len(frontier) > MaxScramble
    /\ \A n \in LiveNodes : NodeFieldsAgree(n)

====
